---- MODULE Spec2Model ----
(***************************************************************************)
(* Camera target coordinator and tracked-entity follower of the Viewer     *)
(* (src/src/modules/exts/Viewer.js): zoomTo / flyTo, the per-frame         *)
(* settlement in _postRender, the trackedEntity setter and the callbacks   *)
(* the engine runs later (promise continuations, flight callbacks), and    *)
(* the bookkeeping of the selected entity, the clock-tracked data source   *)
(* and the listeners of the data source and entity collections.            *)
(*                                                                         *)
(* The viewer is single threaded.  Every action below is one callback of   *)
(* the event loop, run to completion.  Handlers that call each other       *)
(* (zoomToOrFly -> cancelZoom -> clearZoom, updateZoomTarget -> the        *)
(* trackedEntity setter -> cancelZoom ...) are written as operators from   *)
(* a snapshot of the mutable state (Cur) to the snapshot after the call.   *)
(***************************************************************************)
EXTENDS Integers, Sequences, FiniteSets

\* ---- bounds of the model ------------------------------------------------
\* number of zoomTo / flyTo calls in a run of the coordinator (Spec)
MaxCalls == 2
\* number of readiness continuations that may be attached and not yet run
MaxConts == 2
\* number of zoomTo / flyTo calls in a run of the follower (SpecTrack)
MaxTrackCalls == 1
\* zoomTo / flyTo calls made while the scene may morph
MaxMorphCalls == 1
\* zoomTo / flyTo calls whose options objects are followed (SpecOffset)
MaxOffsetCalls == 2

\* ---- values ---------------------------------------------------------------
\* JavaScript undefined, for an entity slot
Undefined == "undefined"
\* e1, e2 carry a position property, e3 does not
Entities == {"e1", "e2", "e3"}
Positioned == {"e1", "e2"}
\* defined(value.position) of the trackedEntity setter
HasPosition(e) == e \in Positioned

\* BoundingSphereState
PENDING == "PENDING"
DONE == "DONE"
FAILED == "FAILED"
BoundingSphereState == {PENDING, DONE, FAILED}
\* what dataSourceDisplay.getBoundingSphere answers during one pass
BSReports == [Positioned -> BoundingSphereState]

\* SceneMode
SCENE2D == "SCENE2D"
SCENE3D == "SCENE3D"
COLUMBUS_VIEW == "COLUMBUS_VIEW"
MORPHING == "MORPHING"
StableModes == {SCENE2D, SCENE3D, COLUMBUS_VIEW}

\* the kinds of zoom target a caller can pass (after Promise.resolve):
\*   list     an entity, an array, an EntityCollection or a loaded DataSource
\*   loading  a DataSource that is still loading (a caller of the follower's
\*            specification passes it, see DataSourceInputs)
\*   tileset  a Cesium3DTileset or a VoxelPrimitive (same branch of the code)
\*   cloud    a TimeDynamicPointCloud
\*   imagery  an ImageryLayer
TargetKinds == {"list", "tileset", "cloud", "imagery"}
Volumes == {"tileset", "cloud"}
\* the entity lists callers pass
Lists == {<< >>, <<"e1", "e2">>}

\* the data sources a caller adds to viewer.dataSources, and the default data
\* source of the data source display, which is never in that collection
DataSources == {"d1", "d2"}
DefaultDataSource == "default"
\* the dataSources option of the constructor: a new collection, or one the
\* caller has already put d1 into
CollectionOptions == {<< >>, <<"d1">>}
\* the entity collections at construction: d1 holds e1 and e2, d2 is empty,
\* the default data source holds e3
InitialEntities ==
    [d \in DataSources \cup {DefaultDataSource} |->
        IF d = "d1" THEN {"e1", "e2"} ELSE IF d = "d2" THEN {} ELSE {"e3"}]

\* the value of viewer._zoomTarget; req is the request whose normalization
\* installed it (history, not read by the code)
NoTarget == [kind |-> Undefined, ents |-> << >>, req |-> 0]
ListTarget(ents, r) == [kind |-> "list", ents |-> ents, req |-> r]
VolumeTarget(k, r) == [kind |-> k, ents |-> << >>, req |-> r]
\* the Cartographic computed for an imagery layer
PositionTarget(r) == [kind |-> "position", ents |-> << >>, req |-> r]

VARIABLES
    \* ---- fields of the Viewer
    _zoomPromise,             \* 0 = undefined, r = the promise returned by call r
    _zoomTarget,
    _zoomOptions,             \* 0 = undefined, r = the options object of call r
    _zoomIsFlight,
    _completeZoom,            \* the call whose promise that._completeZoom resolves
    _trackedEntity,
    _needTrackedEntityUpdate,
    _entityView,              \* Undefined, or the entity the EntityView was built for
    _selectedEntity,
    _clockTrackedDataSource,
    _automaticallyTrackDataSourceClocks,
    _dataSourceChangedListeners,  \* the data sources with a removal function stored
    \* ---- the data sources
    dataSources,              \* viewer.dataSources, in collection order
    entities,                 \* per data source: the entities of dataSource.entities
    subscribed,               \* the data sources whose collectionChanged is listened to
    \* ---- the promises handed to callers
    calls,                    \* the calls made so far, in order
    defaulted,                \* the options objects a default offset was written to
    outcome,                  \* per call: "unresolved", "true" or "false"
    norm,                     \* per call: where its normalization stands
    \* ---- the engine
    ready,                    \* target._readyPromise of the tileset and of the cloud
    conts,                    \* continuations attached to a _readyPromise, in order
    flights,                  \* per call: camera flights started for it, still running
    done,                     \* per call: a snap was performed or a flight completed
    sceneMode,
    enableTranslate,
    enableTilt,
    transformIdentity,        \* camera anchor transform is Matrix4.IDENTITY
    \* ---- the terrain factory and the Plane overlay
    terrain,                  \* the latest TerrainFactory.createTerrain call
    plane,                    \* a Plane overlay and the latest call made on it
    \* ---- history
    last                      \* the callback that ran last and what it saw

viewerVars ==
        << _zoomPromise, _zoomTarget, _zoomOptions, _zoomIsFlight, _completeZoom,
           _trackedEntity, _needTrackedEntityUpdate, _entityView,
           _selectedEntity, _clockTrackedDataSource,
           _automaticallyTrackDataSourceClocks, _dataSourceChangedListeners,
           dataSources, entities, subscribed,
           calls, defaulted, outcome, norm, ready, conts, flights, done,
           sceneMode, enableTranslate, enableTilt, transformIdentity, last >>

vars == << viewerVars, terrain, plane >>

\* a camera move: the camera method called and what it was told to show
NoMove == [op |-> "none", of |-> << >>]

\* a HeadingPitchRange: none, the one a caller passes, the default written
\* for a volume
NoOffset == [heading |-> "-", pitch |-> "-", range |-> "-"]
ExplicitOffset == [heading |-> "h", pitch |-> "p", range |-> "r"]
DefaultOffset(vol) ==
    [heading |-> "0.0", pitch |-> "-0.5",
     range |-> IF vol = "tileset" THEN "radius of the tileset"
               ELSE "radius of the cloud"]

\* ---- the snapshot the handlers transform ----------------------------------
Cur == [ zp |-> _zoomPromise, zt |-> _zoomTarget, zo |-> _zoomOptions,
         zif |-> _zoomIsFlight, cz |-> _completeZoom,
         te |-> _trackedEntity, ntu |-> _needTrackedEntityUpdate,
         ev |-> _entityView,
         se |-> _selectedEntity, ctd |-> _clockTrackedDataSource,
         lst |-> _dataSourceChangedListeners,
         dss |-> dataSources, ents |-> entities, sub |-> subscribed,
         out |-> outcome, conts |-> conts, flights |-> flights, done |-> done,
         et |-> enableTranslate, eti |-> enableTilt, ident |-> transformIdentity,
         \* what this callback has done so far: the camera move it issued, the
         \* render it requested, the trackedEntityChanged and
         \* selectedEntityChanged events it raised, whether it threw
         camera |-> NoMove, rr |-> FALSE, raised |-> 0,
         sraised |-> 0, threw |-> FALSE,
         \* what it did about the follower helper: "none", or where
         \* updateTrackedEntity returned ("noPosition", "pending"), or the
         \* EntityView.update it made ("sphere", "noSphere")
         hv |-> "none",
         \* whether the position of the tracked entity had a value when asked
         pos |-> TRUE,
         \* the offset it handed to the camera, where offsets are followed
         dflt |-> defaulted, offset |-> NoOffset,
         \* the data source and the removed entities an event is about
         ds |-> Undefined, removed |-> {} ]

Commit(s) ==
    /\ _zoomPromise' = s.zp
    /\ _zoomTarget' = s.zt
    /\ _zoomOptions' = s.zo
    /\ _zoomIsFlight' = s.zif
    /\ _completeZoom' = s.cz
    /\ _trackedEntity' = s.te
    /\ _needTrackedEntityUpdate' = s.ntu
    /\ _entityView' = s.ev
    /\ _selectedEntity' = s.se
    /\ _clockTrackedDataSource' = s.ctd
    /\ _automaticallyTrackDataSourceClocks' = _automaticallyTrackDataSourceClocks
    /\ _dataSourceChangedListeners' = s.lst
    /\ dataSources' = s.dss
    /\ entities' = s.ents
    /\ subscribed' = s.sub
    /\ outcome' = s.out
    /\ conts' = s.conts
    /\ flights' = s.flights
    /\ done' = s.done
    /\ enableTranslate' = s.et
    /\ enableTilt' = s.eti
    /\ transformIdentity' = s.ident
    /\ defaulted' = s.dflt
    \* no callback of the viewer reaches the terrain factory or an overlay
    /\ UNCHANGED << terrain, plane >>

\* the record kept of the callback that ran last
Last(op, r, bs, s) ==
    [op |-> op, req |-> r, bs |-> bs,
     camera |-> s.camera, rr |-> s.rr, raised |-> s.raised,
     sraised |-> s.sraised, threw |-> s.threw, hv |-> s.hv, pos |-> s.pos,
     offset |-> s.offset,
     ds |-> s.ds, removed |-> s.removed]

\* ---- the promise ------------------------------------------------------------
\* resolve(value) of a Promise: the first resolution wins, later ones are ignored
Resolve(out, r, value) ==
    IF r \in DOMAIN out /\ out[r] = "unresolved"
    THEN [out EXCEPT ![r] = IF value THEN "true" ELSE "false"]
    ELSE out

\* viewer._completeZoom(value): resolves the promise of the call that installed it
completeZoom(s, value) == [s EXCEPT !.out = Resolve(s.out, s.cz, value)]

clearZoom(s) == [s EXCEPT !.zp = 0, !.zt = NoTarget, !.zo = 0]

cancelZoom(s) ==
    IF s.zp # 0 THEN completeZoom(clearZoom(s), FALSE) ELSE s

\* scene.requestRender()
requestRender(s) == [s EXCEPT !.rr = TRUE]

\* ---- trackedEntity (setter) ---------------------------------------------------
\* the setter without the lines that give the controls back
setTrackedEntity_ControlsKept(s, value) ==
    IF s.te # value
    THEN LET s1 == cancelZoom([s EXCEPT !.te = value])
             s2 == IF value = Undefined \/ ~HasPosition(value)
                   THEN [s1 EXCEPT !.ntu = FALSE, !.ev = Undefined, !.ident = TRUE]
                   ELSE [s1 EXCEPT !.ntu = TRUE]
         IN  [s2 EXCEPT !.raised = @ + 1, !.rr = TRUE]
    ELSE s

\* the setter disabling the controls itself when tracking is to start
setTrackedEntity_DisablesAtOnce(s, value) ==
    IF s.te # value
    THEN LET s1 == cancelZoom([s EXCEPT !.te = value])
             s2 == IF value = Undefined \/ ~HasPosition(value)
                   THEN [s1 EXCEPT
                           !.ntu = FALSE,
                           !.et = IF sceneMode \in {COLUMBUS_VIEW, SCENE2D}
                                  THEN TRUE ELSE @,
                           !.eti = IF sceneMode \in {COLUMBUS_VIEW, SCENE3D}
                                   THEN TRUE ELSE @,
                           !.ev = Undefined,
                           !.ident = TRUE]
                   ELSE [s1 EXCEPT
                           !.ntu = TRUE,
                           !.et = IF sceneMode \in {COLUMBUS_VIEW, SCENE2D}
                                  THEN FALSE ELSE @,
                           !.eti = IF sceneMode \in {COLUMBUS_VIEW, SCENE3D}
                                   THEN FALSE ELSE @,
                           !.ident = TRUE]
         IN  requestRender([s2 EXCEPT !.raised = @ + 1])
    ELSE s

\* the setter without "cancelZoom(this)"
setTrackedEntity_NoCancel(s, value) ==
    IF s.te # value
    THEN LET s1 == [s EXCEPT !.te = value]
             s2 == IF value = Undefined \/ ~HasPosition(value)
                   THEN [s1 EXCEPT
                           !.ntu = FALSE,
                           !.et = IF sceneMode \in {COLUMBUS_VIEW, SCENE2D}
                                  THEN TRUE ELSE @,
                           !.eti = IF sceneMode \in {COLUMBUS_VIEW, SCENE3D}
                                   THEN TRUE ELSE @,
                           !.ev = Undefined,
                           !.ident = TRUE]
                   ELSE [s1 EXCEPT !.ntu = TRUE]
         IN  requestRender([s2 EXCEPT !.raised = @ + 1])
    ELSE s

setTrackedEntity(s, value) ==
    IF s.te # value
    THEN LET s1 == cancelZoom([s EXCEPT !.te = value])
             s2 == IF value = Undefined \/ ~HasPosition(value)
                   THEN [s1 EXCEPT
                           !.ntu = FALSE,
                           !.et = IF sceneMode \in {COLUMBUS_VIEW, SCENE2D}
                                  THEN TRUE ELSE @,
                           !.eti = IF sceneMode \in {COLUMBUS_VIEW, SCENE3D}
                                   THEN TRUE ELSE @,
                           !.ev = Undefined,
                           !.ident = TRUE]
                   ELSE [s1 EXCEPT !.ntu = TRUE]
         IN  requestRender([s2 EXCEPT !.raised = @ + 1])
    ELSE s

\* ---- zoomTo / flyTo -----------------------------------------------------------
\* zoomToOrFly keeping an installed that._completeZoom instead of replacing it
zoomToOrFly_KeepResolver(s, r, isDefined, isFlight) ==
    IF ~isDefined
    THEN s
    ELSE LET s1 == cancelZoom(s)
         IN  [s1 EXCEPT
                 !.out = Append(@, "unresolved"),
                 !.flights = Append(@, 0),
                 !.done = Append(@, FALSE),
                 !.cz = IF @ # 0 THEN @ ELSE r,
                 !.zp = r,
                 !.zif = isFlight,
                 !.zo = r,
                 !.rr = TRUE]

\* zoomToOrFly cancelling the pending request before it looks at the target
zoomToOrFly_CancelFirst(s, r, isDefined, isFlight) ==
    LET s1 == IF s.zp # 0
              THEN [s EXCEPT !.zp = 0, !.zt = NoTarget, !.zo = 0,
                             !.out = Resolve(s.out, s.cz, FALSE)]
              ELSE s
    IN  IF ~isDefined
        THEN s1
        ELSE [s1 EXCEPT
                 !.out = Append(@, "unresolved"),
                 !.flights = Append(@, 0),
                 !.done = Append(@, FALSE),
                 !.cz = r,
                 !.zp = r,
                 !.zif = isFlight,
                 !.zo = r,
                 !.rr = TRUE]

\* the synchronous part of zoomToOrFly; r is the new call, isDefined is
\* defined(zoomTarget).  A throw leaves the snapshot as it was.
zoomToOrFly(s, r, isDefined, isFlight) ==
    IF ~isDefined
    THEN s
    ELSE LET s1 == cancelZoom(s)
         IN  requestRender([s1 EXCEPT
                 !.out = Append(@, "unresolved"),
                 !.flights = Append(@, 0),
                 !.done = Append(@, FALSE),
                 !.cz = r,
                 !.zp = r,
                 !.zif = isFlight,
                 !.zo = r])

\* the continuation without "if (that._zoomPromise !== zoomPromise) return"
normalizedTarget_Unguarded(s, r, t) ==
    IF t.kind = "imagery" THEN s.zt
    ELSE IF t.kind \in Volumes THEN VolumeTarget(t.kind, r)
    ELSE IF t.kind = "loading" THEN s.zt
    ELSE ListTarget(t.ents, r)

\* the continuation of Promise.resolve(zoomTarget) for call r with target t:
\* the new _zoomTarget
normalizedTarget(s, r, t) ==
    IF s.zp # r THEN s.zt
    ELSE IF t.kind = "imagery" THEN s.zt
    ELSE IF t.kind \in Volumes THEN VolumeTarget(t.kind, r)
    ELSE IF t.kind = "loading" THEN s.zt
    ELSE ListTarget(t.ents, r)

\* where the normalization of call r stands after that continuation
normalizedStage(s, r, t) ==
    IF s.zp # r THEN "done"
    ELSE IF t.kind = "imagery" THEN "rectangle"
    ELSE IF t.kind = "loading" THEN "loading"
    ELSE "done"

\* the listener of loadingEvent of a data source that was loading: install
\* the entities it has by now
loadedTarget(s, r, t) ==
    IF s.zp = r THEN ListTarget(t.ents, r) ELSE s.zt

\* the last continuation of the imagery chain: install the position
imageryTarget(s, r) ==
    IF s.zp = r THEN PositionTarget(r) ELSE s.zt

\* ---- camera -------------------------------------------------------------------
\* camera.flyTo / camera.flyToBoundingSphere for request owner: the flight
\* runs on, its complete / cancel callback fires later
startFlight(s, owner, op, of) ==
    [s EXCEPT !.flights[owner] = @ + 1,
              !.camera = [op |-> op, of |-> of]]

\* camera.setView / camera.viewBoundingSphere for request owner
snapView(s, owner, op, of) ==
    [s EXCEPT !.done[owner] = TRUE,
              !.camera = [op |-> op, of |-> of]]

\* camera.lookAtTransform(Matrix4.IDENTITY)
lookAtIdentity(s) == [s EXCEPT !.ident = TRUE]

\* ---- updateZoomTarget ---------------------------------------------------------
\* the loop over the entities of a list target: stops at the first PENDING,
\* pushes the sphere of every entity that is not FAILED
RECURSIVE collectSpheres(_, _, _, _)
collectSpheres(ents, bs, i, acc) ==
    IF i > Len(ents) THEN [pending |-> FALSE, spheres |-> acc]
    ELSE IF bs[ents[i]] = PENDING THEN [pending |-> TRUE, spheres |-> acc]
    ELSE IF bs[ents[i]] # FAILED
         THEN collectSpheres(ents, bs, i + 1, Append(acc, ents[i]))
         ELSE collectSpheres(ents, bs, i + 1, acc)

\* the loop pushing the sphere of every entity that is not PENDING, FAILED or not
usableSpheres_KeepFailed(ents, bs) ==
    [pending |-> \E i \in DOMAIN ents : bs[ents[i]] = PENDING, spheres |-> ents]

\* the loop of updateZoomTarget over all of target
usableSpheres(ents, bs) == collectSpheres(ents, bs, 1, << >>)

\* BoundingSphere.fromBoundingSpheres: the union, named by what it encloses
fromBoundingSpheres(spheres) == spheres

\* the branch of a Cartographic target with the "viewer.trackedEntity =
\* undefined" of the list branch
settlePosition_StopsTracking(s) ==
    LET owner == s.zt.req
        s1 == setTrackedEntity(s, Undefined)
    IN  IF s1.zif
        THEN clearZoom(startFlight(s1, owner, "flyTo", <<"position">>))
        ELSE clearZoom(completeZoom(
                 snapView(s1, owner, "setView", <<"position">>), TRUE))

\* the branch of a Cartographic target
settlePosition(s) ==
    LET owner == s.zt.req
    IN  IF s.zif
        THEN clearZoom(startFlight(s, owner, "flyTo", <<"position">>))
        ELSE clearZoom(completeZoom(
                 snapView(s, owner, "setView", <<"position">>), TRUE))

\* the branch of an entity list without "viewer.trackedEntity = undefined"
settleList_KeepTracking(s, bs) ==
    LET owner == s.zt.req
        got == usableSpheres(s.zt.ents, bs)
    IN  IF got.pending THEN s
        ELSE IF Len(got.spheres) = 0 THEN cancelZoom(s)
        ELSE IF ~s.zif
             THEN completeZoom(clearZoom(lookAtIdentity(
                      snapView(s, owner, "viewBoundingSphere", got.spheres))), TRUE)
             ELSE startFlight(clearZoom(s), owner, "flyToBoundingSphere", got.spheres)

\* the branch of an entity list whose snap view does not finish the promise
settleList_NoResolve(s, bs) ==
    LET owner == s.zt.req
        got == usableSpheres(s.zt.ents, bs)
    IN  IF got.pending THEN s
        ELSE IF Len(got.spheres) = 0 THEN cancelZoom(s)
        ELSE LET s1 == setTrackedEntity(s, Undefined)
                 sphere == fromBoundingSpheres(got.spheres)
             IN  IF ~s1.zif
                 THEN clearZoom(lookAtIdentity(
                          snapView(s1, owner, "viewBoundingSphere", sphere)))
                 ELSE startFlight(clearZoom(s1), owner,
                                  "flyToBoundingSphere", sphere)

\* the branch of an entity list with "viewer.trackedEntity = undefined" ahead
\* of the loop
settleList_StopsTrackingFirst(s, bs) ==
    LET owner == s.zt.req
        got == usableSpheres(s.zt.ents, bs)
        s1 == setTrackedEntity(s, Undefined)
    IN  IF got.pending THEN s1
        ELSE IF Len(got.spheres) = 0 THEN cancelZoom(s1)
        ELSE LET sphere == fromBoundingSpheres(got.spheres)
             IN  IF ~s1.zif
                 THEN completeZoom(clearZoom(lookAtIdentity(
                          snapView(s1, owner, "viewBoundingSphere", sphere))), TRUE)
                 ELSE startFlight(clearZoom(s1), owner,
                                  "flyToBoundingSphere", sphere)

\* the branch of an entity list
settleList(s, bs) ==
    LET owner == s.zt.req
        got == usableSpheres(s.zt.ents, bs)
    IN  IF got.pending THEN s
        ELSE IF Len(got.spheres) = 0 THEN cancelZoom(s)
        ELSE LET s1 == setTrackedEntity(s, Undefined)
                 sphere == fromBoundingSpheres(got.spheres)
             IN  IF ~s1.zif
                 THEN completeZoom(clearZoom(lookAtIdentity(
                          snapView(s1, owner, "viewBoundingSphere", sphere))), TRUE)
                 ELSE startFlight(clearZoom(s1), owner,
                                  "flyToBoundingSphere", sphere)

\* the branch of a tileset, voxel primitive or point cloud: a continuation is
\* attached to target._readyPromise; it keeps the target it was attached for
attachContinuation(s) ==
    [s EXCEPT !.conts = Append(@, [vol |-> s.zt.kind, req |-> s.zt.req])]

\* the function without the return while the scene is MORPHING
updateZoomTarget_WhileMorphing(s, bs) ==
    IF s.zt.kind = Undefined THEN s
    ELSE IF s.zt.kind \in Volumes THEN attachContinuation(s)
    ELSE IF s.zt.kind = "position" THEN settlePosition(s)
    ELSE settleList(s, bs)

updateZoomTarget(s, bs) ==
    IF s.zt.kind = Undefined \/ sceneMode = MORPHING THEN s
    ELSE IF s.zt.kind \in Volumes THEN attachContinuation(s)
    ELSE IF s.zt.kind = "position" THEN settlePosition(s)
    ELSE settleList(s, bs)

\* the options object of call r: the one zoomTo builds or the caller passes
\* to flyTo for this call (named by the call), or one the caller keeps and
\* passes again (named 0); and the offset it holds
optionsObject(r) == IF calls[r].shared THEN 0 ELSE r
offsetOf(s, r) ==
    IF calls[r].given THEN ExplicitOffset
    ELSE IF \E d \in s.dflt : d.obj = optionsObject(r)
         THEN DefaultOffset((CHOOSE d \in s.dflt : d.obj = optionsObject(r)).vol)
         ELSE NoOffset

\* "if (!defined(zoomOptions.offset)) zoomOptions.offset = new
\* HeadingPitchRange(0.0, -0.5, boundingSphere.radius)", and the offset the
\* camera is handed.  Calls made without a record of their options are not
\* followed.
fillOffset(s, c) ==
    IF "given" \notin DOMAIN calls[c.req] THEN s
    ELSE LET s1 == IF offsetOf(s, c.req) = NoOffset
                   THEN [s EXCEPT !.dflt = @ \cup {[obj |-> optionsObject(c.req),
                                                    vol |-> c.vol]}]
                   ELSE s
         IN  [s1 EXCEPT !.offset = offsetOf(s1, c.req)]

\* the continuation of target._readyPromise attached by updateZoomTarget,
\* c = [vol, req], run once the promise has settled
readyContinuation(s, c, state) ==
    IF state = "resolved"
    THEN LET s0 == fillOffset(s, c)
         IN  IF s0.zif
             THEN clearZoom(startFlight(s0, c.req, "flyToBoundingSphere", <<c.vol>>))
             ELSE clearZoom(completeZoom(lookAtIdentity(
                      snapView(s0, c.req, "viewBoundingSphere", <<c.vol>>)), TRUE))
    ELSE IF c.vol = "tileset" THEN cancelZoom(s)
    ELSE s

\* ---- updateTrackedEntity ------------------------------------------------------
\* positionNow: Property.getValueOrUndefined(trackedEntity.position, time) is defined
\* the function without the return on a PENDING bounding sphere
updateTrackedEntity_OnPending(s, bs, positionNow) ==
    IF ~s.ntu THEN s
    ELSE IF ~positionNow THEN [s EXCEPT !.hv = "noPosition"]
    ELSE [s EXCEPT
            !.et = IF sceneMode \in {COLUMBUS_VIEW, SCENE2D} THEN FALSE ELSE @,
            !.eti = IF sceneMode \in {COLUMBUS_VIEW, SCENE3D} THEN FALSE ELSE @,
            !.ev = s.te,
            !.hv = IF bs[s.te] = FAILED THEN "noSphere" ELSE "sphere",
            !.ident = FALSE,
            !.ntu = FALSE]

updateTrackedEntity(s, bs, positionNow) ==
    IF ~s.ntu THEN s
    ELSE IF ~positionNow THEN [s EXCEPT !.hv = "noPosition"]
    ELSE IF bs[s.te] = PENDING THEN [s EXCEPT !.hv = "pending"]
    ELSE [s EXCEPT
            !.et = IF sceneMode \in {COLUMBUS_VIEW, SCENE2D} THEN FALSE ELSE @,
            !.eti = IF sceneMode \in {COLUMBUS_VIEW, SCENE3D} THEN FALSE ELSE @,
            !.ev = s.te,
            !.hv = IF bs[s.te] = FAILED THEN "noSphere" ELSE "sphere",
            !.ident = FALSE,
            !.ntu = FALSE]

\* ---- _onTick -------------------------------------------------------------------
\* the follower part of Viewer.prototype._onTick: the helper that exists is
\* updated with the sphere of the entity that is tracked now.  (The rest of
\* the handler moves the selection indicator, which is not modelled.)
\* First the handler with the test of updateTrackedEntity, which lets a
\* FAILED sphere through.
_onTick_UnlessPending(s, bs) ==
    IF s.ev = Undefined THEN s
    ELSE IF bs[s.te] # PENDING
         THEN [s EXCEPT !.hv = IF bs[s.te] = FAILED THEN "noSphere" ELSE "sphere",
                        !.ident = FALSE]
         ELSE s

_onTick(s, bs) ==
    IF s.ev = Undefined THEN s
    ELSE IF bs[s.te] = DONE
         THEN [s EXCEPT !.hv = "sphere", !.ident = FALSE]
         ELSE s

\* ---- selectedEntity, clockTrackedDataSource (setters) ------------------------
\* the setter raising selectedEntityChanged on every assignment
setSelectedEntity_AlwaysRaises(s, value) ==
    [s EXCEPT !.se = value, !.sraised = @ + 1]

setSelectedEntity(s, value) ==
    IF s.se # value
    THEN [s EXCEPT !.se = value, !.sraised = @ + 1]
    ELSE s

setClockTrackedDataSource(s, value) ==
    IF s.ctd # value THEN [s EXCEPT !.ctd = value] ELSE s

\* ---- the listeners of dataSourceAdded / dataSourceRemoved ----------------------
\* clock tracking: follow the new data source, keep the function that removes
\* the changedEvent listener
_onDataSourceAdded(s, d) ==
    LET s1 == IF _automaticallyTrackDataSourceClocks
              THEN setClockTrackedDataSource(s, d) ELSE s
    IN  [s1 EXCEPT !.lst = @ \cup {d}]

\* subscribe to the entity collection of the data source
_dataSourceAdded(s, d) == [s EXCEPT !.sub = @ \cup {d}]

\* clock tracking, d already out of the collection s.dss.  Calling the stored
\* removal function of a data source that has none is a TypeError.
_onDataSourceRemoved_NoFallback(s, d) ==
    IF d \notin s.lst
    THEN [s EXCEPT !.threw = TRUE]
    ELSE LET s1 == [s EXCEPT !.lst = @ \ {d}]
         IN  IF s.ctd = d THEN setClockTrackedDataSource(s1, Undefined) ELSE s1

_onDataSourceRemoved(s, d) ==
    IF d \notin s.lst
    THEN [s EXCEPT !.threw = TRUE]
    ELSE LET s1 == [s EXCEPT !.lst = @ \ {d}]
             numDataSources == Len(s1.dss)
         IN  IF s.ctd = d
             THEN IF _automaticallyTrackDataSourceClocks /\ numDataSources > 0
                  THEN setClockTrackedDataSource(s1, s1.dss[numDataSources])
                  ELSE setClockTrackedDataSource(s1, Undefined)
             ELSE s1

\* unsubscribe, and let go of a tracked / selected entity of the data source
_dataSourceRemoved(s, d) ==
    LET s1 == [s EXCEPT !.sub = @ \ {d}]
        s2 == IF s1.te # Undefined /\ s1.te \in s1.ents[d]
              THEN setTrackedEntity(s1, Undefined) ELSE s1
    IN  IF s2.se # Undefined /\ s2.se \in s2.ents[d]
        THEN setSelectedEntity(s2, Undefined) ELSE s2

\* the listener letting go of the tracked entity only
_onEntityCollectionChanged_TrackedOnly(s, removed) ==
    IF s.te \in removed THEN setTrackedEntity(s, Undefined) ELSE s

\* the listener of collectionChanged: the loop over removed
_onEntityCollectionChanged(s, removed) ==
    LET s1 == IF s.te \in removed THEN setTrackedEntity(s, Undefined) ELSE s
    IN  IF s1.se \in removed THEN setSelectedEntity(s1, Undefined) ELSE s1

\* ---- the event loop -----------------------------------------------------------
\* the targets callers pass; kind Undefined is a call without a target
ListInputs ==
    {[kind |-> "list", ents |-> l] : l \in Lists} \cup {[kind |-> Undefined, ents |-> << >>]}
TargetInputs ==
    ListInputs \cup {[kind |-> k, ents |-> << >>] : k \in TargetKinds \ {"list"}}
\* entity lists, and a data source in the middle of loading (isLoading, with
\* a loadingEvent) that holds e1 and e2 once it is loaded
DataSourceInputs ==
    ListInputs \cup {[kind |-> "loading", ents |-> <<"e1", "e2">>]}

\* a continuation whose _readyPromise has settled is a queued microtask: it
\* runs before any other callback
Runnable(i) == ready[conts[i].vol] # "pending"
MicrotaskQueued == \E i \in DOMAIN conts : Runnable(i)

\* the entities a render pass asks the data source display about: those of a
\* list target, and the tracked entity while its first fix is awaited
\* (the loop over a list stops at the first entity that reports PENDING)
RECURSIVE askedUpTo(_, _, _)
askedUpTo(ents, bs, i) ==
    IF i > Len(ents) THEN {}
    ELSE IF bs[ents[i]] = PENDING THEN {ents[i]}
         ELSE {ents[i]} \cup askedUpTo(ents, bs, i + 1)
ListAsked(s, bs) ==
    IF s.zt.kind = "list" /\ sceneMode # MORPHING
    THEN askedUpTo(s.zt.ents, bs, 1) ELSE {}
TrackAsked(s, positionNow) ==
    IF s.ntu /\ positionNow THEN {s.te} ELSE {}
\* the answers the pass got; "-" for an entity it did not ask about
Seen(asked, bs) == [e \in Positioned |-> IF e \in asked THEN bs[e] ELSE "-"]
Unseen == [e \in Positioned |-> "-"]

\* the state after new Viewer(container, options): coll is options.dataSources
\* (already subscribed to, but without removal functions), auto is
\* options.automaticallyTrackDataSourceClocks
ViewerConstructed(coll, auto) ==
    /\ _zoomPromise = 0
    /\ _zoomTarget = NoTarget
    /\ _zoomOptions = 0
    /\ _zoomIsFlight = FALSE
    /\ _completeZoom = 0
    /\ _trackedEntity = Undefined
    /\ _needTrackedEntityUpdate = FALSE
    /\ _entityView = Undefined
    /\ _selectedEntity = Undefined
    /\ _clockTrackedDataSource = Undefined
    /\ _automaticallyTrackDataSourceClocks = auto
    /\ _dataSourceChangedListeners = {}
    /\ dataSources = coll
    /\ entities = InitialEntities
    /\ subscribed = {coll[i] : i \in DOMAIN coll} \cup {DefaultDataSource}
    /\ calls = << >>
    /\ defaulted = {}
    /\ outcome = << >>
    /\ norm = << >>
    /\ ready = [v \in Volumes |-> "pending"]
    /\ conts = << >>
    /\ flights = << >>
    /\ done = << >>
    /\ sceneMode = SCENE3D
    /\ enableTranslate = TRUE
    /\ enableTilt = TRUE
    /\ transformIdentity = TRUE
    /\ last = Last("init", 0, Unseen, Cur)

\* ---- TerrainFactory ---------------------------------------------------------
\* the members of TerrainType, each with a value of its own
TerrainType ==
    [NONE |-> "none", XYZ |-> "xyz", GOOGLE |-> "google",
     ARCGIS |-> "arcgis", VR |-> "vr"]

\* the type arguments callers pass: the five members, the name of a member
\* in place of its value, a member of ImageryType, the empty string, nothing
TerrainTypeInputs ==
    {TerrainType.NONE, TerrainType.XYZ, TerrainType.GOOGLE, TerrainType.ARCGIS,
     TerrainType.VR, "NONE", "tms", "", Undefined}
\* the options objects callers pass: none, or the options of a terrain provider
NoOptions == [given |-> FALSE]
TerrainOptionInputs ==
    {NoOptions} \cup
    [given : {TRUE}, url : {"url1", "url2", "url3"},
     requestVertexNormals : BOOLEAN, requestWaterMask : BOOLEAN]

\* new Cesium.<Provider>(options): the provider and the options object its
\* constructor was handed
createEllipsoidTerrain(options) ==
    [provider |-> "EllipsoidTerrainProvider", options |-> options]
createUrlTerrain(options) ==
    [provider |-> "CesiumTerrainProvider", options |-> options]
createGoogleTerrain(options) ==
    [provider |-> "GoogleEarthEnterpriseTerrainProvider", options |-> options]
createArcgisTerrain(options) ==
    [provider |-> "ArcGISTiledElevationTerrainProvider", options |-> options]
createVRTerrain(options) ==
    [provider |-> "VRTheWorldTerrainProvider", options |-> options]

\* what is kept of a createTerrain call: the arguments, the providers
\* constructed during the call, and the returned value as an index into
\* them, 0 for undefined
NoTerrain ==
    [called |-> FALSE, type |-> Undefined, options |-> NoOptions,
     constructed |-> << >>, returned |-> 0]

createTerrain_DefaultEllipsoid(type, options) ==
    LET made ==
            IF type = TerrainType.XYZ THEN << createUrlTerrain(options) >>
            ELSE IF type = TerrainType.GOOGLE THEN << createGoogleTerrain(options) >>
            ELSE IF type = TerrainType.ARCGIS THEN << createArcgisTerrain(options) >>
            ELSE IF type = TerrainType.VR THEN << createVRTerrain(options) >>
            ELSE << createEllipsoidTerrain(options) >>
    IN  [called |-> TRUE, type |-> type, options |-> options,
         constructed |-> made, returned |-> Len(made)]

\* the switch over type: terrain starts undefined, a matching case assigns
\* the provider its creator returns, the default case assigns nothing
createTerrain(type, options) ==
    LET made ==
            IF type = TerrainType.NONE THEN << createEllipsoidTerrain(options) >>
            ELSE IF type = TerrainType.XYZ THEN << createUrlTerrain(options) >>
            ELSE IF type = TerrainType.GOOGLE THEN << createGoogleTerrain(options) >>
            ELSE IF type = TerrainType.ARCGIS THEN << createArcgisTerrain(options) >>
            ELSE IF type = TerrainType.VR THEN << createVRTerrain(options) >>
            ELSE << >>
    IN  [called |-> TRUE, type |-> type, options |-> options,
         constructed |-> made, returned |-> Len(made)]

CreateTerrain(type, options) ==
    /\ terrain' = createTerrain(type, options)
    /\ UNCHANGED << viewerVars, plane >>

\* ---- JavaScript values handed to the Plane overlay ----------------------------
\* a string is the sequence of its characters
Num(n) == [t |-> "number", nan |-> FALSE, n |-> n, s |-> << >>]
NaN == [t |-> "number", nan |-> TRUE, n |-> 0, s |-> << >>]
Str(chars) == [t |-> "string", nan |-> FALSE, n |-> 0, s |-> chars]
JSUndefined == [t |-> "undefined", nan |-> FALSE, n |-> 0, s |-> << >>]
JSNull == [t |-> "null", nan |-> FALSE, n |-> 0, s |-> << >>]
JSTrue == [t |-> "boolean", nan |-> FALSE, n |-> 1, s |-> << >>]

Digits == << "0", "1", "2", "3", "4", "5", "6", "7", "8", "9" >>
IsDigit(c) == \E i \in DOMAIN Digits : Digits[i] = c
DigitValue(c) == (CHOOSE i \in DOMAIN Digits : Digits[i] = c) - 1
WhiteSpace == {" "}

RECURSIVE TrimStart(_)
TrimStart(chars) ==
    IF chars # << >> /\ Head(chars) \in WhiteSpace
    THEN TrimStart(Tail(chars))
    ELSE chars
RECURSIVE TrimEnd(_)
TrimEnd(chars) ==
    IF chars # << >> /\ chars[Len(chars)] \in WhiteSpace
    THEN TrimEnd(SubSeq(chars, 1, Len(chars) - 1))
    ELSE chars
RECURSIVE DecimalValue(_)
DecimalValue(digits) ==
    IF digits = << >>
    THEN 0
    ELSE 10 * DecimalValue(SubSeq(digits, 1, Len(digits) - 1))
         + DigitValue(digits[Len(digits)])

\* ToNumber of a string: white space around it is dropped, the empty string
\* is 0, an optionally signed run of decimal digits is its value, anything
\* else is NaN (the strings passed here hold no fraction, exponent or prefix)
StringToNumber(chars) ==
    LET trimmed == TrimEnd(TrimStart(chars))
        signed == trimmed # << >> /\ Head(trimmed) \in {"+", "-"}
        digits == IF signed THEN Tail(trimmed) ELSE trimmed
    IN  IF trimmed = << >>
        THEN Num(0)
        ELSE IF digits # << >> /\ \A i \in DOMAIN digits : IsDigit(digits[i])
             THEN Num(IF signed /\ Head(trimmed) = "-"
                      THEN 0 - DecimalValue(digits)
                      ELSE DecimalValue(digits))
             ELSE NaN

\* the unary plus
ToNumber(v) ==
    IF v.t = "number" THEN v
    ELSE IF v.t = "string" THEN StringToNumber(v.s)
    ELSE IF v.t = "undefined" THEN NaN
    ELSE Num(v.n)

\* ToBoolean
Truthy(v) ==
    IF v.t = "number" THEN ~v.nan /\ v.n # 0
    ELSE IF v.t = "string" THEN v.s # << >>
    ELSE v.t = "boolean" /\ v.n = 1

\* +value || 0
numberOrZero(v) == IF Truthy(ToNumber(v)) THEN ToNumber(v).n ELSE 0

\* value || 0
valueOrZero(v) == IF Truthy(v) THEN v ELSE Num(0)

\* String(value).toLocaleUpperCase(), of the letters that name an axis
toLocaleUpperCase(chars) ==
    [i \in DOMAIN chars |->
        IF chars[i] = "x" THEN "X"
        ELSE IF chars[i] = "y" THEN "Y"
        ELSE IF chars[i] = "z" THEN "Z"
        ELSE chars[i]]

\* the width and height arguments: numbers, numeric and other strings,
\* nothing at all
NumberInputs ==
    {Num(0), Num(5), NaN, Str(<< "1", "2" >>), Str(<< " ", "-", "5", " " >>),
     Str(<< "5", "p", "x" >>), Str(<< >>), JSUndefined}
\* the plane argument of the constructor
PlaneInputs ==
    {[normal |-> JSUndefined, distance |-> JSUndefined],
     [normal |-> Str(<< "x" >>), distance |-> Num(5)],
     [normal |-> JSTrue, distance |-> JSNull]}

\* ---- style objects -------------------------------------------------------------
\* a style object is a function from its own keys to values; a value of a
\* style is known by its identity
StyleKeys == {"dimensions", "plane", "material"}
StyleValues == {[ref |-> "value1"], [ref |-> "value2"]}
EmptyStyle == [k \in {} |-> [ref |-> ""]]
StyleInputs ==
    UNION {[keys -> StyleValues] : keys \in SUBSET StyleKeys}

\* delete object[key]
deleteKey(object, key) == [k \in DOMAIN object \ {key} |-> object[k]]

\* Util.merge(dest, source): every own key of source is written to dest
merge(dest, source) ==
    [k \in DOMAIN dest \cup DOMAIN source |->
        IF k \in DOMAIN source THEN source[k] ELSE dest[k]]

\* ---- the Plane overlay -----------------------------------------------------------
\* no overlay made
NoPlane == << >>

\* the call made last on the overlay: the member, its argument, whether it
\* threw and what it returned
Call(op, arg, style) ==
    [op |-> op, arg |-> arg, style |-> style, threw |-> FALSE,
     returned |-> Undefined]

\* new Plane(position, width, height, plane); the delegate is an Entity,
\* kept by the properties the constructor hands it
Plane(width, height, planeArg) ==
    LET n == toLocaleUpperCase(planeArg.normal.s)
        normal ==
            IF Truthy(planeArg.normal) /\ planeArg.normal.t = "string"
            THEN IF n = << "X" >> THEN "UNIT_X"
                 ELSE IF n = << "Y" >> THEN "UNIT_Y"
                 ELSE "UNIT_Z"
            ELSE "UNIT_Z"
        distance == valueOrZero(planeArg.distance)
    IN  [_width |-> numberOrZero(width),
         _height |-> numberOrZero(height),
         _normal |-> normal,
         _distance |-> distance,
         _style |-> EmptyStyle,
         _delegate |->
            [plane |->
                [dimensions |-> [x |-> numberOrZero(width),
                                 y |-> numberOrZero(height)],
                 plane |-> [normal |-> normal, distance |-> distance]]],
         call |-> Call("new", JSUndefined, EmptyStyle)]

\* set width: the field is written, then the dimensions are looked up under
\* this._delegate.plan; reading a property of undefined is a TypeError
setWidth(p, width) ==
    LET p1 == [p EXCEPT !._width = numberOrZero(width)]
    IN  IF "plan" \in DOMAIN p1._delegate
        THEN [p1 EXCEPT !._delegate.plan.dimensions.x = p1._width]
        ELSE [p1 EXCEPT !.call.threw = TRUE]

\* get width
getWidth(p) == p._width

\* set height
setHeight(p, height) ==
    LET p1 == [p EXCEPT !._height = numberOrZero(height)]
    IN  IF "plan" \in DOMAIN p1._delegate
        THEN [p1 EXCEPT !._delegate.plan.dimensions.y = p1._height]
        ELSE [p1 EXCEPT !.call.threw = TRUE]

\* get height
getHeight(p) == p._height

\* setStyle(style): an empty style returns at once; delete style['dimensions']
\* takes the key out of the style, delete ['plane'] is applied to an array
\* literal and takes nothing out of the style; what is left is merged
setStyle(p, style) ==
    IF DOMAIN style = {}
    THEN [p EXCEPT !.call.returned = "this"]
    ELSE LET deleted == deleteKey(style, "dimensions")
         IN  [p EXCEPT !._style = merge(@, deleted),
                       !._delegate.plane = merge(@, deleted),
                       !.call.returned = "this"]

\* overlay.width = width
SetWidth(width) ==
    /\ plane' = setWidth([plane EXCEPT !.call = Call("width", width, EmptyStyle)],
                         width)
    /\ UNCHANGED << viewerVars, terrain >>

\* overlay.height = height
SetHeight(height) ==
    /\ plane' = setHeight([plane EXCEPT !.call = Call("height", height, EmptyStyle)],
                          height)
    /\ UNCHANGED << viewerVars, terrain >>

\* overlay.setStyle(style)
SetStyle(style) ==
    /\ plane' = setStyle([plane EXCEPT !.call = Call("setStyle", JSUndefined, style)],
                         style)
    /\ UNCHANGED << viewerVars, terrain >>

\* a viewer, no terrain asked for and no overlay made
Constructed(coll, auto) ==
    /\ ViewerConstructed(coll, auto)
    /\ terrain = NoTerrain
    /\ plane = NoPlane

\* the defaults: a collection of its own, clocks of data sources tracked
Init == Constructed(<< >>, TRUE)
\* any of the options
InitData == \E coll \in CollectionOptions, auto \in BOOLEAN : Constructed(coll, auto)

\* zoomTo(target, offset) and flyTo(target, options), at most maxCalls of them
Zoom(t, isFlight, maxCalls) ==
    LET r == Len(calls) + 1
        isDefined == t.kind # Undefined
        s == zoomToOrFly(Cur, r, isDefined, isFlight)
    IN  /\ ~MicrotaskQueued
        /\ Len(calls) < maxCalls
        /\ Commit(s)
        /\ calls' = IF isDefined THEN Append(calls, t) ELSE calls
        /\ norm' = IF isDefined THEN Append(norm, "queued") ELSE norm
        /\ last' = Last(IF isDefined THEN "zoom" ELSE "throw", r, Unseen, s)
        /\ UNCHANGED <<ready, sceneMode>>

ZoomTo == \E t \in TargetInputs : Zoom(t, FALSE, MaxCalls)
FlyTo == \E t \in TargetInputs : Zoom(t, TRUE, MaxCalls)
\* the same calls with an entity list, a data source (or nothing) for target
ZoomToList == \E t \in DataSourceInputs : Zoom(t, FALSE, MaxTrackCalls)
FlyToList == \E t \in DataSourceInputs : Zoom(t, TRUE, MaxTrackCalls)
\* the calls made while the scene may morph, with any kind of target
ZoomToAny == \E t \in TargetInputs : Zoom(t, FALSE, MaxMorphCalls)
FlyToAny == \E t \in TargetInputs : Zoom(t, TRUE, MaxMorphCalls)
\* the calls with a volume for target and the options followed: zoomTo with
\* or without an offset; flyTo with an options object made for the call, with
\* or without an offset, or with one that holds no offset and that the caller
\* keeps and passes again
OffsetInputs(isFlight) ==
    {[kind |-> k, ents |-> << >>, given |-> g, shared |-> sh] :
        k \in Volumes, g \in BOOLEAN, sh \in {FALSE} \cup {isFlight}}
    \ {[kind |-> k, ents |-> << >>, given |-> TRUE, shared |-> TRUE] : k \in Volumes}
ZoomToVolume == \E t \in OffsetInputs(FALSE) : Zoom(t, FALSE, MaxOffsetCalls)
FlyToVolume == \E t \in OffsetInputs(TRUE) : Zoom(t, TRUE, MaxOffsetCalls)
ZoomToEntities == \E t \in ListInputs : Zoom(t, FALSE, MaxMorphCalls)
FlyToEntities == \E t \in ListInputs : Zoom(t, TRUE, MaxMorphCalls)

\* the continuation of Promise.resolve(zoomTarget).then(...) of call r
Normalize(r) ==
    /\ ~MicrotaskQueued
    /\ norm[r] = "queued"
    /\ Commit([Cur EXCEPT !.zt = normalizedTarget(Cur, r, calls[r])])
    /\ norm' = [norm EXCEPT ![r] = normalizedStage(Cur, r, calls[r])]
    /\ last' = Last("normalize", r, Unseen, Cur)
    /\ UNCHANGED <<calls, ready, sceneMode>>

\* the data source of call r has finished loading: its loadingEvent listener
LoadingEnds(r) ==
    /\ ~MicrotaskQueued
    /\ norm[r] = "loading"
    /\ Commit([Cur EXCEPT !.zt = loadedTarget(Cur, r, calls[r])])
    /\ norm' = [norm EXCEPT ![r] = "done"]
    /\ last' = Last("loadingEnds", r, Unseen, Cur)
    /\ UNCHANGED <<calls, ready, sceneMode>>

\* the target promise of call r rejects: no continuation is attached for that
TargetRejects(r) ==
    /\ ~MicrotaskQueued
    /\ norm[r] = "queued"
    /\ norm' = [norm EXCEPT ![r] = "done"]
    /\ last' = Last("targetRejects", r, Unseen, Cur)
    /\ Commit(Cur)
    /\ UNCHANGED <<calls, ready, sceneMode>>

\* the end of the imagery chain of call r: the position is known
ImageryResolves(r) ==
    /\ ~MicrotaskQueued
    /\ norm[r] = "rectangle"
    /\ Commit([Cur EXCEPT !.zt = imageryTarget(Cur, r)])
    /\ norm' = [norm EXCEPT ![r] = "done"]
    /\ last' = Last("imageryResolves", r, Unseen, Cur)
    /\ UNCHANGED <<calls, ready, sceneMode>>

\* the imagery chain of call r rejects (provider readiness, rectangle, position)
ImageryRejects(r) ==
    /\ ~MicrotaskQueued
    /\ norm[r] = "rectangle"
    /\ norm' = [norm EXCEPT ![r] = "done"]
    /\ last' = Last("imageryRejects", r, Unseen, Cur)
    /\ Commit(Cur)
    /\ UNCHANGED <<calls, ready, sceneMode>>

\* Viewer.prototype._postRender, once per render pass.  bs and positionNow are
\* what the data source display and the position property answer during the
\* pass; answers nobody asks for are fixed, they change nothing.  A pass
\* that finds no request and no first fix to wait for returns from both
\* functions at once and is left out.
RenderPass(bs, positionNow) ==
    LET s1 == updateZoomTarget(Cur, bs)
        s2 == updateTrackedEntity(s1, bs, positionNow)
        asked == ListAsked(Cur, bs) \cup TrackAsked(s1, positionNow)
    IN  /\ ~MicrotaskQueued
        /\ _zoomPromise # 0 \/ _zoomTarget.kind # Undefined
                            \/ _needTrackedEntityUpdate
        /\ _zoomTarget.kind \in Volumes => Len(conts) < MaxConts
        \* (nobody asks when there is neither a list nor a first fix to wait for)
        /\ ~_needTrackedEntityUpdate => positionNow
        /\ (_zoomTarget.kind # "list" /\ ~_needTrackedEntityUpdate)
           => \A e \in Positioned : bs[e] = PENDING
        /\ \A e \in Positioned \ asked : bs[e] = PENDING
        /\ ~s1.ntu => positionNow
        /\ Commit(s2)
        /\ last' = Last("postRender", _zoomTarget.req, Seen(asked, bs),
                        [s2 EXCEPT !.pos = positionNow])
        /\ UNCHANGED <<calls, norm, ready, sceneMode>>
PostRender == \E bs \in BSReports, positionNow \in BOOLEAN : RenderPass(bs, positionNow)

\* clock.onTick.  A tick that finds no helper does nothing about the follower
\* and is left out.
OnTick ==
    \E bs \in BSReports :
        LET s1 == _onTick(Cur, bs)
            asked == {_trackedEntity}
        IN  /\ ~MicrotaskQueued
            /\ _entityView # Undefined
            /\ \A e \in Positioned \ asked : bs[e] = PENDING
            /\ Commit(s1)
            /\ last' = Last("tick", 0, Seen(asked, bs), s1)
            /\ UNCHANGED <<calls, norm, ready, sceneMode>>

\* target._readyPromise of volume v settles.  Nothing but an attached
\* continuation observes the promise, so a promise that settled before the
\* first continuation was attached behaves as one that settles right after.
ReadySettles(v, state) ==
    /\ ~MicrotaskQueued
    /\ ready[v] = "pending"
    /\ \E i \in DOMAIN conts : conts[i].vol = v
    /\ ready' = [ready EXCEPT ![v] = state]
    /\ last' = Last("engine", 0, Unseen, Cur)
    /\ Commit(Cur)
    /\ UNCHANGED <<calls, norm, sceneMode>>

\* the first queued continuation runs
RunContinuation ==
    \E i \in DOMAIN conts :
        /\ Runnable(i)
        /\ \A j \in 1..(i - 1) : ~Runnable(j)
        /\ LET c == conts[i]
               rest == [j \in 1..(Len(conts) - 1) |->
                           IF j < i THEN conts[j] ELSE conts[j + 1]]
               s == readyContinuation([Cur EXCEPT !.conts = rest], c, ready[c.vol])
           IN  /\ Commit(s)
               /\ last' = Last("readyContinuation", c.req, Unseen, s)
        /\ UNCHANGED <<calls, norm, ready, sceneMode>>

\* the complete callback of a flight started for call r
FlightComplete(r) ==
    /\ ~MicrotaskQueued
    /\ flights[r] > 0
    /\ LET s == completeZoom([Cur EXCEPT !.flights[r] = @ - 1,
                                         !.done[r] = TRUE], TRUE)
       IN  /\ Commit(s)
           /\ last' = Last("flightComplete", r, Unseen, s)
    /\ UNCHANGED <<calls, norm, ready, sceneMode>>

\* the cancel callback of a flight started for call r
FlightCancel(r) ==
    /\ ~MicrotaskQueued
    /\ flights[r] > 0
    /\ LET s == completeZoom([Cur EXCEPT !.flights[r] = @ - 1], FALSE)
       IN  /\ Commit(s)
           /\ last' = Last("flightCancel", r, Unseen, s)
    /\ UNCHANGED <<calls, norm, ready, sceneMode>>

\* viewer.trackedEntity = value
SetTrackedEntity(value) ==
    /\ ~MicrotaskQueued
    /\ LET s == setTrackedEntity(Cur, value)
       IN  /\ Commit(s)
           /\ last' = Last("setTrackedEntity", _zoomPromise, Unseen, s)
    /\ UNCHANGED <<calls, norm, ready, sceneMode>>

\* a listener of scene.morphStart that lets go of the selection as well
_clearTrackedObject_AndSelected(s) ==
    setSelectedEntity(setTrackedEntity(s, Undefined), Undefined)

\* Viewer.prototype._clearTrackedObject, the listener of scene.morphStart
_clearTrackedObject(s) == setTrackedEntity(s, Undefined)

\* scene.morphStart: _clearTrackedObject runs, then the scene is MORPHING
MorphStart ==
    /\ ~MicrotaskQueued
    /\ sceneMode \in StableModes
    /\ LET s == _clearTrackedObject(Cur)
       IN  /\ Commit(s)
           /\ last' = Last("morphStart", _zoomPromise, Unseen, s)
    /\ sceneMode' = MORPHING
    /\ UNCHANGED <<calls, norm, ready>>

\* the morph ends in mode m
MorphComplete(m) ==
    /\ ~MicrotaskQueued
    /\ sceneMode = MORPHING
    /\ sceneMode' = m
    /\ last' = Last("engine", 0, Unseen, Cur)
    /\ Commit(Cur)
    /\ UNCHANGED <<calls, norm, ready>>

\* viewer.selectedEntity = value
SetSelectedEntity(value) ==
    /\ ~MicrotaskQueued
    /\ LET s == setSelectedEntity(Cur, value)
       IN  /\ Commit(s)
           /\ last' = Last("setSelectedEntity", _zoomPromise, Unseen, s)
    /\ UNCHANGED <<calls, norm, ready, sceneMode>>

\* viewer.clockTrackedDataSource = value
SetClockTrackedDataSource(value) ==
    /\ ~MicrotaskQueued
    /\ LET s == setClockTrackedDataSource([Cur EXCEPT !.ds = value], value)
       IN  /\ Commit(s)
           /\ last' = Last("setClockTrackedDataSource", _zoomPromise, Unseen, s)
    /\ UNCHANGED <<calls, norm, ready, sceneMode>>

\* viewer.dataSources.add(d): the collection appends d and raises
\* dataSourceAdded; the listeners run in the order the constructor added them
AddDataSource(d) ==
    /\ ~MicrotaskQueued
    /\ \A i \in DOMAIN dataSources : dataSources[i] # d
    /\ LET s0 == [Cur EXCEPT !.dss = Append(@, d), !.ds = d]
           s == _dataSourceAdded(_onDataSourceAdded(s0, d), d)
       IN  /\ Commit(s)
           /\ last' = Last("addDataSource", _zoomPromise, Unseen, s)
    /\ UNCHANGED <<calls, norm, ready, sceneMode>>

\* viewer.dataSources.remove(d): the collection takes d out and raises
\* dataSourceRemoved; a listener that throws ends the dispatch, the
\* listeners after it do not run
RemoveDataSource(d) ==
    /\ ~MicrotaskQueued
    /\ \E i \in DOMAIN dataSources : dataSources[i] = d
    /\ LET s0 == [Cur EXCEPT !.dss = SelectSeq(@, LAMBDA x : x # d), !.ds = d]
           s1 == _onDataSourceRemoved(s0, d)
           s == IF s1.threw THEN s1 ELSE _dataSourceRemoved(s1, d)
       IN  /\ Commit(s)
           /\ last' = Last("removeDataSource", _zoomPromise, Unseen, s)
    /\ UNCHANGED <<calls, norm, ready, sceneMode>>

\* dataSource.entities.add(e), putting back an entity that was removed from
\* the collection; collectionChanged is raised with nothing removed
AddEntity(d, e) ==
    /\ ~MicrotaskQueued
    /\ e \in InitialEntities[d] \ entities[d]
    /\ LET s0 == [Cur EXCEPT !.ents[d] = @ \cup {e}, !.ds = d]
           s == IF d \in subscribed THEN _onEntityCollectionChanged(s0, {}) ELSE s0
       IN  /\ Commit(s)
           /\ last' = Last("addEntity", _zoomPromise, Unseen, s)
    /\ UNCHANGED <<calls, norm, ready, sceneMode>>

\* dataSource.entities.remove(e) / removeAll(): collectionChanged is raised
\* with the removed entities, to the viewer if it listens to that collection
RemoveEntities(d, removed) ==
    /\ ~MicrotaskQueued
    /\ removed # {}
    /\ removed \subseteq entities[d]
    /\ LET s0 == [Cur EXCEPT !.ents[d] = @ \ removed, !.ds = d, !.removed = removed]
           s == IF d \in subscribed THEN _onEntityCollectionChanged(s0, removed) ELSE s0
       IN  /\ Commit(s)
           /\ last' = Last("removeEntities", _zoomPromise, Unseen, s)
    /\ UNCHANGED <<calls, norm, ready, sceneMode>>

\* ---- the coordinator: calls, render passes, continuations, flight callbacks
Next ==
    \/ ZoomTo
    \/ FlyTo
    \/ \E r \in DOMAIN calls : Normalize(r)
    \/ \E r \in DOMAIN calls : TargetRejects(r)
    \/ \E r \in DOMAIN calls : ImageryResolves(r)
    \/ \E r \in DOMAIN calls : ImageryRejects(r)
    \/ PostRender
    \/ \E v \in Volumes, state \in {"resolved", "rejected"} : ReadySettles(v, state)
    \/ RunContinuation
    \/ \E r \in DOMAIN calls : FlightComplete(r)
    \/ \E r \in DOMAIN calls : FlightCancel(r)

Spec == Init /\ [][Next]_vars

\* ---- the follower: tracked-entity assignments, scene morphs and render
\* passes, with view requests for entity lists going on
NextTrack ==
    \/ \E value \in Entities \cup {Undefined} : SetTrackedEntity(value)
    \/ MorphStart
    \/ \E m \in StableModes : MorphComplete(m)
    \/ PostRender
    \/ OnTick
    \/ ZoomToList
    \/ FlyToList
    \/ \E r \in DOMAIN calls : Normalize(r)
    \/ \E r \in DOMAIN calls : LoadingEnds(r)
    \/ \E r \in DOMAIN calls : FlightComplete(r)
    \/ \E r \in DOMAIN calls : FlightCancel(r)

SpecTrack == Init /\ [][NextTrack]_vars

\* ---- view requests of every kind of target while the scene morphs between
\* projections
NextMorph ==
    \/ ZoomToAny
    \/ FlyToAny
    \/ \E r \in DOMAIN calls : Normalize(r)
    \/ \E r \in DOMAIN calls : ImageryResolves(r)
    \/ PostRender
    \/ \E v \in Volumes, state \in {"resolved", "rejected"} : ReadySettles(v, state)
    \/ RunContinuation
    \/ \E r \in DOMAIN calls : FlightComplete(r)
    \/ \E r \in DOMAIN calls : FlightCancel(r)
    \/ MorphStart
    \/ \E m \in StableModes : MorphComplete(m)

SpecMorph == Init /\ [][NextMorph]_vars

\* ---- scene morphs while an entity is tracked, one is selected and a view
\* request for an entity list is going on
SelectInputs == {"e1", Undefined}
NextClear ==
    \/ \E value \in Entities \cup {Undefined} : SetTrackedEntity(value)
    \/ \E value \in SelectInputs : SetSelectedEntity(value)
    \/ MorphStart
    \/ \E m \in StableModes : MorphComplete(m)
    \/ PostRender
    \/ ZoomToEntities
    \/ FlyToEntities
    \/ \E r \in DOMAIN calls : Normalize(r)
    \/ \E r \in DOMAIN calls : FlightComplete(r)
    \/ \E r \in DOMAIN calls : FlightCancel(r)

SpecClear == Init /\ [][NextClear]_vars

\* ---- view requests of every kind of target while an entity is tracked
NextSettle ==
    \/ \E value \in Entities \cup {Undefined} : SetTrackedEntity(value)
    \/ ZoomToAny
    \/ FlyToAny
    \/ \E r \in DOMAIN calls : Normalize(r)
    \/ \E r \in DOMAIN calls : ImageryResolves(r)
    \/ PostRender
    \/ \E v \in Volumes, state \in {"resolved", "rejected"} : ReadySettles(v, state)
    \/ RunContinuation
    \/ \E r \in DOMAIN calls : FlightComplete(r)
    \/ \E r \in DOMAIN calls : FlightCancel(r)

SpecSettle == Init /\ [][NextSettle]_vars

\* ---- view requests for volumes with the options objects followed
NextOffset ==
    \/ ZoomToVolume
    \/ FlyToVolume
    \/ \E r \in DOMAIN calls : Normalize(r)
    \/ PostRender
    \/ \E v \in Volumes : ReadySettles(v, "resolved")
    \/ RunContinuation
    \/ \E r \in DOMAIN calls : FlightComplete(r)
    \/ \E r \in DOMAIN calls : FlightCancel(r)

SpecOffset == Init /\ [][NextOffset]_vars

\* ---- snap views of entity lists with morphs and render passes at any time;
\* the caller makes no tracked-entity assignment once a request is out
SetTrackedEntityFirst(value) ==
    /\ calls = << >>
    /\ SetTrackedEntity(value)

NextLive ==
    \/ \E value \in Entities \cup {Undefined} : SetTrackedEntityFirst(value)
    \/ ZoomToEntities
    \/ \E r \in DOMAIN calls : Normalize(r)
    \/ PostRender
    \/ MorphStart
    \/ \E m \in StableModes : MorphComplete(m)

\* the continuation of Promise.resolve(zoomTarget) is a microtask: it runs
Fairness == WF_vars(\E r \in DOMAIN calls : Normalize(r))

SpecLive == Init /\ [][NextLive]_vars /\ Fairness

\* ---- the bookkeeping of data sources and entities: the collection and the
\* entity collections change, entities are tracked and selected
NextData ==
    \/ \E d \in DataSources : AddDataSource(d)
    \/ \E d \in DataSources : RemoveDataSource(d)
    \/ \E d \in DOMAIN entities, e \in Entities : AddEntity(d, e)
    \/ \E d \in DOMAIN entities, removed \in SUBSET Entities : RemoveEntities(d, removed)
    \/ \E value \in Entities \cup {Undefined} : SetTrackedEntity(value)
    \/ \E value \in Entities \cup {Undefined} : SetSelectedEntity(value)
    \/ \E value \in DataSources \cup {Undefined} : SetClockTrackedDataSource(value)

SpecData == InitData /\ [][NextData]_vars

\* ---- automatic clock tracking on its own: a viewer constructed with its own
\* empty collection, and nobody assigns clockTrackedDataSource
NextClock ==
    \/ \E d \in DataSources : AddDataSource(d)
    \/ \E d \in DataSources : RemoveDataSource(d)
    \/ \E d \in DOMAIN entities, e \in Entities : AddEntity(d, e)
    \/ \E d \in DOMAIN entities, removed \in SUBSET Entities : RemoveEntities(d, removed)
    \/ \E value \in Entities \cup {Undefined} : SetTrackedEntity(value)
    \/ \E value \in Entities \cup {Undefined} : SetSelectedEntity(value)

SpecClock == Init /\ [][NextClock]_vars

\* ---- the terrain factory: terrain is asked for, with any type and options
NextTerrain ==
    \E type \in TerrainTypeInputs, options \in TerrainOptionInputs :
        CreateTerrain(type, options)

SpecTerrain == Init /\ [][NextTerrain]_vars

\* ---- a Plane overlay: the overlay is constructed from any of the arguments,
\* then its width, height and style are assigned, in any order
InitPlane ==
    /\ ViewerConstructed(<< >>, TRUE)
    /\ terrain = NoTerrain
    /\ \E width \in NumberInputs, height \in NumberInputs, planeArg \in PlaneInputs :
            plane = Plane(width, height, planeArg)

NextPlane ==
    \/ \E width \in NumberInputs : SetWidth(width)
    \/ \E height \in NumberInputs : SetHeight(height)
    \/ \E style \in StyleInputs : SetStyle(style)

SpecPlane == InitPlane /\ [][NextPlane]_vars

\* ---- properties ----------------------------------------------------------------
\* the calls made before the latest one
Superseded == {r \in DOMAIN calls : r < Len(calls)}
\* callbacks the engine runs for a request after the coordinator let go of it
LateCallbacks == {"flightComplete", "flightCancel", "readyContinuation"}

\* C1: whenever a new zoomTo / flyTo call is made while an earlier call's
\* outcome is unresolved, the earlier outcome resolves (to false): no call that
\* has been superseded is left with an unresolved outcome.
C1_SupersededIsResolved ==
    \A r \in Superseded : outcome[r] # "unresolved"

\* C2: an outcome that resolves true belongs to the most recently issued call;
\* no step resolves an earlier call's outcome to true once a later call exists.
C2_OnlyLatestResolvesTrue ==
    [][\A r \in DOMAIN outcome :
          (outcome[r] # "true" /\ outcome'[r] = "true") => r = Len(calls)]_vars

\* C2 witness: the complete callback of the first call's flight has just run
\* after a second call was made, and the outcome resolved true is the second's.
C2_Witness ==
    /\ Len(calls) = 2
    /\ last.op = "flightComplete"
    /\ last.req = 1
    /\ outcome[1] # "true"
    /\ outcome[2] = "true"

\* C3: an outcome resolves true only once the camera move of the same request
\* was performed (snap) or its own flight reported completion, and no late
\* callback of another request (flight complete / cancel, readiness
\* continuation) resolves it, to true or to false.
C3_ResolvedByOwnMove ==
    [][\A r \in DOMAIN outcome :
          (outcome[r] = "unresolved" /\ outcome'[r] # "unresolved")
          => /\ outcome'[r] = "true" => done'[r]
             /\ ~(last'.op \in LateCallbacks /\ last'.req # r)]_vars

\* C4: a call without a target throws and leaves the pending request as it
\* was: promise, target, options, flight flag and every outcome unchanged.
C4_ThrowLeavesRequest ==
    [][last'.op = "throw"
       => UNCHANGED <<_zoomPromise, _zoomTarget, _zoomOptions, _zoomIsFlight,
                      _completeZoom, outcome>>]_vars

\* C4 witness: a call threw while a request with an installed target was
\* pending, and the request is still pending.
C4_Witness ==
    /\ last.op = "throw"
    /\ _zoomPromise # 0
    /\ _zoomTarget.kind # Undefined
    /\ outcome[_zoomPromise] = "unresolved"

\* a render pass that finds an entity list installed and the scene not morphing
ListPass ==
    /\ last'.op = "postRender"
    /\ _zoomTarget.kind = "list"
    /\ sceneMode # MORPHING
\* the entities of the installed list, and whether the pass settles it
Listed == {_zoomTarget.ents[i] : i \in DOMAIN _zoomTarget.ents}
NonePending == \A e \in Listed : last'.bs[e] # PENDING
AllFailed == \A e \in Listed : last'.bs[e] = FAILED
\* the entities of the installed list that did not report FAILED, in list order
NotFailed == SelectSeq(_zoomTarget.ents, LAMBDA e : last'.bs[e] # FAILED)
SlotEmpty ==
    /\ _zoomPromise = 0
    /\ _zoomTarget = NoTarget
    /\ _zoomOptions = 0

\* C5: a render pass on which every entity of the list target (an empty list
\* included) reports FAILED clears the request, resolves its outcome false,
\* issues no camera move and leaves the tracked entity as it was.
C5_AllFailedResolvesFalse ==
    [][(ListPass /\ AllFailed)
       => /\ SlotEmpty'
          /\ outcome'[_zoomTarget.req] = "false"
          /\ last'.camera = NoMove
          /\ _trackedEntity' = _trackedEntity]_vars

\* C6: when a pass settles a list target (no entity PENDING, not all FAILED),
\* the camera is moved to the union of the volumes of exactly the entities
\* that did not report FAILED, in list order.
C6_MovesToNotFailed ==
    [][(ListPass /\ NonePending /\ ~AllFailed)
       => /\ last'.camera.op \in {"viewBoundingSphere", "flyToBoundingSphere"}
          /\ last'.camera.of = NotFailed]_vars

\* C6 witness: e1 reported DONE, e2 FAILED, and the move shows e1 alone.
C6_Witness ==
    /\ last.op = "postRender"
    /\ last.bs["e1"] = DONE
    /\ last.bs["e2"] = FAILED
    /\ last.camera.of = <<"e1">>

\* C7: a pass that settles a list target with a usable volume resolves the
\* outcome true, at once for a snap and on flight completion for a flight,
\* whatever the state before it, a tracked entity included.
C7_SettledListResolvesTrue ==
    [][/\ (ListPass /\ NonePending /\ ~AllFailed /\ ~_zoomIsFlight)
          => outcome'[_zoomTarget.req] = "true"
       /\ (last'.op = "flightComplete" /\ calls[last'.req].kind = "list")
          => outcome'[last'.req] = "true"]_vars

\* C8: after a pass has settled a list target with a snap (viewBoundingSphere
\* was called), the tracked entity is undefined, there is no follower helper,
\* the camera anchor transform is identity and the request slot is empty.
C8_SnapListSettled ==
    (last.op = "postRender" /\ last.camera.op = "viewBoundingSphere"
        /\ calls[last.req].kind = "list")
    => /\ _trackedEntity = Undefined
       /\ _entityView = Undefined
       /\ ~_needTrackedEntityUpdate
       /\ transformIdentity
       /\ SlotEmpty

\* C8 witness: both entities reported DONE, the pass snapped the camera to
\* them and it was this pass that ended the tracking (it raised the event).
C8_Witness ==
    /\ last.op = "postRender"
    /\ last.camera = [op |-> "viewBoundingSphere", of |-> <<"e1", "e2">>]
    /\ last.bs = [e \in Positioned |-> DONE]
    /\ last.raised = 1
    /\ _trackedEntity = Undefined

\* C9: for a flight request whose target is a tileset not yet ready (and no
\* other request around): a render pass before readiness settles issues no
\* camera move and resolves nothing; once readiness has resolved, the flight
\* is started and its completion resolves the outcome true; if readiness
\* rejects, the outcome resolves false and no camera move is issued.
C9_TilesetFlight ==
    [][(Len(calls) = 1 /\ calls[1].kind = "tileset" /\ _zoomIsFlight)
       => /\ (last'.op = "postRender" /\ ready["tileset"] = "pending")
             => (last'.camera = NoMove /\ outcome' = outcome)
          /\ (last'.op = "readyContinuation" /\ ready["tileset"] = "resolved")
             => last'.camera.op = "flyToBoundingSphere"
          /\ last'.op = "flightComplete"
             => outcome'[1] = "true"
          /\ (last'.op = "readyContinuation" /\ ready["tileset"] = "rejected")
             => (last'.camera = NoMove /\ outcome'[1] = "false")]_vars

\* C10: while an entity without a position is the tracked entity, the follower
\* is in NotTracking (needs-update flag false, no helper), on the assignment
\* and on every later pass; and right after the assignment the translate and
\* tilt controls are enabled.
C10_NoPositionStopsTracking ==
    /\ _trackedEntity \in Entities \ Positioned
       => (~_needTrackedEntityUpdate /\ _entityView = Undefined)
    /\ (last.op = "setTrackedEntity" /\ last.raised = 1
           /\ _trackedEntity \in Entities \ Positioned)
       => (enableTranslate /\ enableTilt)

\* C10 witness: e3, which has no position, has just been assigned in Columbus
\* view, where tracking disables both controls.
C10_Witness ==
    /\ last.op = "setTrackedEntity"
    /\ last.raised = 1
    /\ _trackedEntity = "e3"
    /\ sceneMode = COLUMBUS_VIEW
    /\ enableTranslate
    /\ enableTilt

\* C11: when a data source is removed from the viewer's collection, a tracked
\* entity of its entity collection is no longer tracked and a selected entity
\* of its entity collection is no longer selected, while a tracked or selected
\* entity that is not in that entity collection stays.
C11_RemovedDataSourceLetsGo ==
    [][last'.op = "removeDataSource"
       => /\ _trackedEntity' =
                IF _trackedEntity \in entities[last'.ds]
                THEN Undefined ELSE _trackedEntity
          /\ _selectedEntity' =
                IF _selectedEntity \in entities[last'.ds]
                THEN Undefined ELSE _selectedEntity]_vars

\* C12: a failure during the normalization of the pending request (its target
\* promise rejects, or the readiness, rectangle or position step of an imagery
\* layer rejects) resolves the outcome of that request false.
C12_NormalizationFailureResolvesFalse ==
    [][(last'.op \in {"targetRejects", "imageryRejects"} /\ _zoomPromise = last'.req)
       => outcome'[last'.req] = "false"]_vars

\* the continuations a request leaves behind: of its target promise, of the
\* imagery chain, of the loading event, of a volume's readiness
Continuations == {"normalize", "imageryResolves", "loadingEnds", "readyContinuation"}

\* C13: a continuation of a request that has been superseded by a later call
\* changes nothing of the coordinator: no target installed, the newer request
\* neither cleared nor cancelled, no camera move, no outcome resolved.
C13_StaleContinuationInert ==
    [][(last'.op \in Continuations /\ last'.req < Len(calls))
       => /\ UNCHANGED <<_zoomPromise, _zoomTarget, _zoomOptions, _zoomIsFlight,
                         _completeZoom, outcome>>
          /\ last'.camera = NoMove]_vars

\* C14: a zoomTo / flyTo call requests a render when it is issued, and every
\* render pass that finds a request installed and leaves it installed (still
\* unresolved) requests another render.
C14_RenderRequestedWhilePending ==
    [][/\ last'.op = "zoom" => last'.rr
       /\ (last'.op = "postRender" /\ _zoomPromise # 0 /\ _zoomPromise' = _zoomPromise)
          => last'.rr]_vars

\* C15: when the readiness of the volume the pending request waits for
\* (tileset, voxel primitive or time-dynamic point cloud) rejects, the request
\* is cancelled: the slot is cleared and its outcome resolved false.
C15_VolumeFailureResolvesFalse ==
    [][(/\ last'.op = "readyContinuation"
        /\ last'.req = _zoomPromise
        /\ ready[calls[last'.req].kind] = "rejected")
       => (SlotEmpty' /\ outcome'[last'.req] = "false")]_vars

\* C16: an assignment to trackedEntity of a value that differs from the
\* current one raises trackedEntityChanged exactly once and requests a render,
\* and if a view request is pending (installed, its outcome unresolved) it
\* clears the request and resolves its outcome false; an assignment of the
\* value already tracked raises nothing, requests no render and leaves the
\* request and every outcome as they were.
C16_AssignmentCancelsRequest ==
    [][last'.op = "setTrackedEntity"
       => IF _trackedEntity' # _trackedEntity
          THEN /\ last'.raised = 1
               /\ last'.rr
               /\ (_zoomPromise # 0 /\ outcome[_zoomPromise] = "unresolved")
                  => (SlotEmpty' /\ outcome'[_zoomPromise] = "false")
          ELSE /\ last'.raised = 0
               /\ ~last'.rr
               /\ UNCHANGED <<_zoomPromise, _zoomTarget, _zoomOptions,
                              _zoomIsFlight, _completeZoom, outcome>>]_vars

\* C16 witness: e1 has just been assigned while the first request was
\* installed with its target; the request is gone and its outcome is false.
C16_Witness ==
    /\ last.op = "setTrackedEntity"
    /\ last.req = 1
    /\ last.raised = 1
    /\ last.rr
    /\ _trackedEntity = "e1"
    /\ norm[1] = "done"
    /\ SlotEmpty
    /\ outcome[1] = "false"

\* C17: every callback raises selectedEntityChanged exactly once if it changes
\* the selected entity and never if it leaves it as it was, and likewise
\* trackedEntityChanged for the tracked entity; so over any run the number of
\* notifications is the number of changes of the value.
C17_NotifiedOncePerChange ==
    [][/\ last'.sraised = (IF _selectedEntity' # _selectedEntity THEN 1 ELSE 0)
       /\ last'.raised = (IF _trackedEntity' # _trackedEntity THEN 1 ELSE 0)]_vars

\* C17 witness: e1 is selected and has just been assigned again: the
\* assignment raised nothing.
C17_Witness ==
    /\ last.op = "setSelectedEntity"
    /\ last.sraised = 0
    /\ _selectedEntity = "e1"

\* C18: when the data source in the clock-tracked slot is removed from the
\* collection, the slot becomes the most recently added data source still in
\* the collection (the collection keeps the order of addition) if automatic
\* clock tracking is on and the collection is not empty, and undefined
\* otherwise.
C18_ClockFallsBack ==
    [][(last'.op = "removeDataSource" /\ _clockTrackedDataSource = last'.ds)
       => _clockTrackedDataSource' =
            IF _automaticallyTrackDataSourceClocks /\ Len(dataSources') > 0
            THEN dataSources'[Len(dataSources')]
            ELSE Undefined]_vars

\* the data sources whose entity collection the claim of C19 speaks of: those
\* in the viewer's collection, and the default data source
InViewer == {dataSources[i] : i \in DOMAIN dataSources} \cup {DefaultDataSource}

\* C19: when entities are removed from the entity collection of a data source
\* of the viewer (or of the default data source), a tracked entity among them
\* is no longer tracked and a selected entity among them is no longer
\* selected; a tracked or selected entity that is not among them stays.
C19_RemovedEntityLetsGo ==
    [][(last'.op = "removeEntities" /\ last'.ds \in InViewer)
       => /\ _trackedEntity' =
                IF _trackedEntity \in last'.removed THEN Undefined ELSE _trackedEntity
          /\ _selectedEntity' =
                IF _selectedEntity \in last'.removed THEN Undefined ELSE _selectedEntity]_vars

\* C19 witness: e1 and e2 have just been removed together from d1, a data
\* source of the collection, while one was tracked and the other selected
\* (both events were raised), and neither slot holds an entity any more.
C19_Witness ==
    /\ last.op = "removeEntities"
    /\ last.ds = "d1"
    /\ last.ds \in InViewer
    /\ last.removed = {"e1", "e2"}
    /\ last.raised = 1
    /\ last.sraised = 1
    /\ _trackedEntity = Undefined
    /\ _selectedEntity = Undefined

\* the controls tracking disables in the active scene mode are disabled
ControlsDisabled ==
    /\ sceneMode \in {COLUMBUS_VIEW, SCENE2D} => ~enableTranslate
    /\ sceneMode \in {COLUMBUS_VIEW, SCENE3D} => ~enableTilt

\* C20 as stated: right after the assignment of a new tracked entity that has
\* a position, the controls of the active scene mode are disabled and the
\* camera anchor transform is identity.
C20_DisabledOnAssignment ==
    (last.op = "setTrackedEntity" /\ last.raised = 1 /\ HasPosition(_trackedEntity))
    => (ControlsDisabled /\ transformIdentity)

\* C20 amended: the assignment of a new tracked entity that has a position
\* marks the follower as awaiting its first fix and leaves the controls and
\* the camera anchor transform as they were; the controls of the active scene
\* mode are disabled by the render pass that builds the follower helper for
\* that entity.
C20_DisabledOnFirstFix ==
    [][/\ (last'.op = "setTrackedEntity" /\ last'.raised = 1
              /\ HasPosition(_trackedEntity'))
          => /\ _needTrackedEntityUpdate'
             /\ UNCHANGED <<enableTranslate, enableTilt, transformIdentity>>
       /\ (last'.op = "postRender" /\ _needTrackedEntityUpdate
              /\ ~_needTrackedEntityUpdate' /\ _trackedEntity' # Undefined)
          => /\ _entityView' = _trackedEntity'
             /\ ControlsDisabled']_vars

\* C20 witness: e1 got its first fix in Columbus view on this pass; both
\* controls, enabled until then, are disabled now.
C20_Witness ==
    /\ last.op = "postRender"
    /\ last.bs["e1"] = DONE
    /\ sceneMode = COLUMBUS_VIEW
    /\ _trackedEntity = "e1"
    /\ _entityView = "e1"
    /\ ~_needTrackedEntityUpdate
    /\ ~enableTranslate
    /\ ~enableTilt

\* C21: a follower helper that exists was constructed for the entity that is
\* tracked now; in particular a clock tick that updates the helper updates
\* one that is bound to the tracked entity.
C21_HelperFollowsTracked ==
    /\ _entityView # Undefined => _entityView = _trackedEntity
    /\ (last.op = "tick" /\ last.hv = "sphere") => _entityView = _trackedEntity

\* C22: a render pass that finds the needs-update flag set (and whose view
\* request does not stop the tracking) builds the follower helper exactly when
\* the position of the tracked entity has a value and its bounding sphere is
\* not PENDING: then the helper is the one of the tracked entity, updated with
\* the sphere (with no sphere on FAILED), and the flag is cleared; on any
\* other pass the flag stays set and the helper slot is left as it was.
C22_FirstFixExactlyWhenReady ==
    [][(/\ last'.op = "postRender"
        /\ _needTrackedEntityUpdate
        /\ _trackedEntity' = _trackedEntity)
       => IF last'.pos /\ last'.bs[_trackedEntity] \in {DONE, FAILED}
          THEN /\ ~_needTrackedEntityUpdate'
               /\ _entityView' = _trackedEntity
               /\ last'.hv = (IF last'.bs[_trackedEntity] = FAILED
                              THEN "noSphere" ELSE "sphere")
          ELSE /\ _needTrackedEntityUpdate'
               /\ _entityView' = _entityView
               /\ last'.hv \notin {"sphere", "noSphere"}]_vars
C22_Witness ==
    /\ last.op = "postRender"
    /\ last.pos
    /\ last.bs["e1"] = FAILED
    /\ last.hv = "noSphere"
    /\ _trackedEntity = "e1"
    /\ _entityView = "e1"
    /\ ~_needTrackedEntityUpdate

\* C23: a render pass on which an entity of the installed list target reports
\* PENDING commits nothing: the tracked entity is not cleared, no camera move
\* is issued, no outcome is resolved and promise, target, options, flight flag
\* and resolver stay installed as they were.
C23_PendingListPassCommitsNothing ==
    [][(ListPass /\ ~NonePending)
       => /\ UNCHANGED <<_zoomPromise, _zoomTarget, _zoomOptions, _zoomIsFlight,
                         _completeZoom, _trackedEntity, outcome, flights, done>>
          /\ last'.camera = NoMove]_vars
C23_Witness ==
    /\ last.op = "postRender"
    /\ last.bs["e1"] = DONE
    /\ last.bs["e2"] = PENDING
    /\ _zoomTarget.kind = "list"
    /\ _zoomPromise = _zoomTarget.req
    /\ outcome[_zoomPromise] = "unresolved"
    /\ _trackedEntity = "e1"

\* C24: while the scene mode is MORPHING a render pass leaves a pending request
\* as it is, whatever the kind of its target: no camera move, no readiness
\* continuation attached, no outcome resolved, promise, target, options,
\* flight flag and resolver still installed.  Once the scene is in a stable
\* mode again the pass takes the installed target up: it attaches the
\* continuation of a volume and settles a position.
C24_MorphingPassLeavesRequest ==
    [][(last'.op = "postRender" /\ _zoomPromise # 0)
       => IF sceneMode = MORPHING
          THEN /\ UNCHANGED <<_zoomPromise, _zoomTarget, _zoomOptions,
                              _zoomIsFlight, _completeZoom, outcome, conts,
                              flights, done>>
               /\ last'.camera = NoMove
          ELSE /\ _zoomTarget.kind \in Volumes => Len(conts') = Len(conts) + 1
               /\ _zoomTarget.kind = "position"
                  => (_zoomTarget' = NoTarget /\ last'.camera # NoMove)]_vars
C24_Witness ==
    /\ last.op = "postRender"
    /\ sceneMode = MORPHING
    /\ _zoomTarget.kind = "tileset"
    /\ _zoomPromise = 1
    /\ outcome[1] = "unresolved"
    /\ conts = << >>

\* C25: for a tileset, voxel or point-cloud target the camera move is made at
\* most once per request, however many render passes occur before the
\* readiness of the target settles: a readiness continuation that moves the
\* camera for a request finds no flight of that request in the air and no
\* view of it set.
C25_VolumeMovesOnce ==
    [][(/\ last'.op = "readyContinuation"
        /\ calls[last'.req].kind \in Volumes
        /\ last'.camera # NoMove)
       => (flights[last'.req] = 0 /\ ~done[last'.req])]_vars

\* C26: a clock tick that finds a follower helper updates it if and only if
\* the bounding sphere of the tracked entity is reported DONE; on PENDING or
\* FAILED the helper is not updated; and no tick changes the tracking state
\* (tracked entity, needs-update flag, helper slot, camera controls).
C26_TickUpdatesOnDone ==
    [][(last'.op = "tick" /\ _entityView # Undefined)
       => /\ (last'.hv # "none") <=> (last'.bs[_trackedEntity] = DONE)
          /\ last'.hv \in {"none", "sphere"}
          /\ UNCHANGED <<_trackedEntity, _needTrackedEntityUpdate, _entityView,
                         enableTranslate, enableTilt>>]_vars
C26_Witness ==
    /\ last.op = "tick"
    /\ last.bs["e1"] = DONE
    /\ last.hv = "sphere"
    /\ _trackedEntity = "e1"
    /\ _entityView = "e1"

\* C27: the start of a scene morph leaves no entity tracked: the helper is
\* dropped and the needs-update flag cleared; when an entity was tracked a
\* pending view request is cancelled with outcome false, when none was
\* tracked the request is left as it is; the selected entity is unchanged.
C27_MorphStartStopsTracking ==
    [][(last'.op = "morphStart")
       => /\ _trackedEntity' = Undefined
          /\ _entityView' = Undefined
          /\ ~_needTrackedEntityUpdate'
          /\ _selectedEntity' = _selectedEntity
          /\ last'.sraised = 0
          /\ IF _trackedEntity # Undefined
             THEN /\ _zoomPromise' = 0
                  /\ _zoomTarget' = NoTarget
                  /\ _zoomOptions' = 0
                  /\ (_zoomPromise # 0 /\ outcome[_zoomPromise] = "unresolved")
                     => outcome'[_zoomPromise] = "false"
             ELSE UNCHANGED <<_zoomPromise, _zoomTarget, _zoomOptions,
                              _zoomIsFlight, _completeZoom, outcome>>]_vars
C27_Witness ==
    /\ last.op = "morphStart"
    /\ last.raised = 1
    /\ _trackedEntity = Undefined
    /\ _selectedEntity = "e1"
    /\ sceneMode = MORPHING
    /\ Len(calls) = 1
    /\ outcome[1] = "false"
    /\ _zoomPromise = 0

\* the last callback was a render pass in a stable scene mode on which no
\* entity reported PENDING
SettledPass ==
    /\ last.op = "postRender"
    /\ sceneMode # MORPHING
    /\ \A e \in Positioned : last.bs[e] # PENDING

\* C28: if render passes go on, again and again in a stable scene mode with
\* no entity reporting PENDING, and the caller makes no tracked-entity
\* assignment, then every snap-view request for an entity list is eventually
\* resolved (true or false) and a filled pending-request slot eventually
\* becomes empty.
C28_SnapListEventuallyResolves ==
    ([]<>SettledPass)
    => /\ \A r \in 1..(MaxMorphCalls + 1) :
              (r \in DOMAIN calls)
                  ~> (r \in DOMAIN calls /\ outcome[r] # "unresolved")
       /\ (_zoomPromise # 0) ~> SlotEmpty
C28_Witness ==
    /\ last.op = "postRender"
    /\ last.camera.op = "viewBoundingSphere"
    /\ sceneMode = SCENE2D
    /\ calls[1].kind = "list"
    /\ outcome[1] = "true"
    /\ SlotEmpty

\* C29: the offset a readiness continuation hands to the camera for a volume
\* is the caller's offset when the call gave one, and otherwise the default
\* (heading 0, pitch -0.5, range the radius of the bounding sphere of the
\* target of that call).
C29_OffsetUsed ==
    [][(/\ last'.op = "readyContinuation"
        /\ last'.camera # NoMove
        /\ "given" \in DOMAIN calls[last'.req])
       => last'.offset = (IF calls[last'.req].given THEN ExplicitOffset
                          ELSE DefaultOffset(calls[last'.req].kind))]_vars

\* C30: in every reachable state a stored zoom target comes with a stored
\* pending promise, an empty promise slot comes with empty target and options
\* slots, and the stored target is the one the normalization of the request
\* whose promise is installed put there.
C30_TargetImpliesPromise ==
    /\ _zoomTarget.kind # Undefined => _zoomPromise # 0
    /\ _zoomPromise = 0 => (_zoomTarget = NoTarget /\ _zoomOptions = 0)
    /\ _zoomTarget.kind # Undefined => _zoomTarget.req = _zoomPromise
C30_Witness ==
    /\ last.op = "imageryResolves"
    /\ last.req = 2
    /\ _zoomTarget = PositionTarget(2)
    /\ _zoomPromise = 2
    /\ outcome[1] = "false"

\* C31: the settlement of a request for a tileset, voxel primitive or point
\* cloud (by its readiness continuation) and of a request for the position
\* derived from an imagery layer (on a render pass) leaves the tracked entity
\* as it is, and the helper and the needs-update flag too, unless the same
\* pass obtains the first fix; the settlement of an entity list with a usable
\* sphere leaves no entity tracked.
C31_OnlyListsStopTracking ==
    [][/\ last'.op = "readyContinuation"
          => UNCHANGED <<_trackedEntity, _entityView, _needTrackedEntityUpdate>>
       /\ (last'.op = "postRender" /\ _zoomTarget.kind = "position"
                                   /\ sceneMode # MORPHING)
          => /\ _zoomTarget' = NoTarget
             /\ _trackedEntity' = _trackedEntity
             /\ last'.hv \notin {"sphere", "noSphere"}
                => UNCHANGED <<_entityView, _needTrackedEntityUpdate>>
       /\ (ListPass /\ NonePending /\ ~AllFailed)
          => _trackedEntity' = Undefined]_vars
C31_Witness ==
    /\ last.op = "postRender"
    /\ last.camera.op = "setView"
    /\ _trackedEntity = "e1"
    /\ _entityView = "e1"
    /\ SlotEmpty
    /\ outcome = <<"true">>

\* C32: every data source in the collection of the viewer, those the
\* collection held at construction included, has a removal function of its
\* changedEvent listener stored; the handling of a removal does not throw
\* and leaves no removal function stored for the removed data source.
C32_RemovalFunctionStored ==
    /\ \A i \in DOMAIN dataSources : dataSources[i] \in _dataSourceChangedListeners
    /\ last.op = "removeDataSource"
       => (~last.threw /\ last.ds \notin _dataSourceChangedListeners)

\* the last data source of the collection, Undefined for an empty one
LastDataSource(coll) == IF Len(coll) > 0 THEN coll[Len(coll)] ELSE Undefined

\* C33: with automatic clock tracking, a collection empty at construction and
\* no manual assignment, the clock-tracked data source is always the last
\* data source of the collection (undefined for an empty collection), and
\* removing a data source other than the clock-tracked one leaves the slot
\* as it was
C33_ClockTracksLast ==
    /\ _clockTrackedDataSource = LastDataSource(dataSources)
    /\ [][/\ _clockTrackedDataSource' = LastDataSource(dataSources')
          /\ (last'.op = "removeDataSource" /\ last'.ds # _clockTrackedDataSource)
             => _clockTrackedDataSource' = _clockTrackedDataSource]_vars

C33_Witness ==
    /\ last.op = "removeDataSource"
    /\ ~last.threw
    /\ Len(dataSources) > 0
    /\ _clockTrackedDataSource = LastDataSource(dataSources)
    /\ _clockTrackedDataSource # last.ds

\* the provider class each member of TerrainType stands for
ProviderOf(type) ==
    IF type = TerrainType.NONE THEN "EllipsoidTerrainProvider"
    ELSE IF type = TerrainType.XYZ THEN "CesiumTerrainProvider"
    ELSE IF type = TerrainType.GOOGLE THEN "GoogleEarthEnterpriseTerrainProvider"
    ELSE IF type = TerrainType.ARCGIS THEN "ArcGISTiledElevationTerrainProvider"
    ELSE IF type = TerrainType.VR THEN "VRTheWorldTerrainProvider"
    ELSE Undefined

\* C34: createTerrain(type, options) returns the provider of the creator that
\* matches the type, constructed from the very options object passed in, and
\* for every other type value it constructs nothing and returns undefined
C34_CreatorMatchesType ==
    terrain.called =>
        IF ProviderOf(terrain.type) # Undefined
        THEN /\ terrain.constructed =
                    << [provider |-> ProviderOf(terrain.type),
                        options |-> terrain.options] >>
             /\ terrain.returned = 1
        ELSE /\ terrain.constructed = << >>
             /\ terrain.returned = 0

C34_Witness ==
    /\ terrain.called
    /\ terrain.type = TerrainType.VR
    /\ terrain.options.given
    /\ terrain.returned = 1
    /\ terrain.constructed[1].provider = "VRTheWorldTerrainProvider"

\* C35: assigning width (height) stores the numeric value of the argument, 0
\* for a non-numeric or zero argument, writes the same value to dimension x
\* (y) of the delegate's plane, and completes without error; the getter then
\* returns the stored value
C35_SetterWritesDimension ==
    /\ plane.call.op = "width"
       => (/\ ~plane.call.threw
           /\ getWidth(plane) = numberOrZero(plane.call.arg)
           /\ plane._delegate.plane.dimensions.x = getWidth(plane))
    /\ plane.call.op = "height"
       => (/\ ~plane.call.threw
           /\ getHeight(plane) = numberOrZero(plane.call.arg)
           /\ plane._delegate.plane.dimensions.y = getHeight(plane))

\* the keys of the geometry, as far as object holds them
Geometry(object) ==
    [k \in DOMAIN object \cap {"dimensions", "plane"} |-> object[k]]

\* C36: setStyle(style) merges neither the key dimensions nor the key plane
\* into the overlay's style or into the delegate's plane graphics, so the
\* geometry of the delegate stays as it was; an empty style changes nothing
\* of the overlay, and the call returns the same Plane
C36_StyleKeepsGeometry ==
    [][plane'.call.op = "setStyle"
       => (/\ Geometry(plane'._style) = Geometry(plane._style)
           /\ Geometry(plane'._delegate.plane) = Geometry(plane._delegate.plane)
           /\ plane'.call.returned = "this"
           /\ DOMAIN plane'.call.style = {}
              => (/\ plane'._style = plane._style
                  /\ plane'._delegate = plane._delegate))]_vars
====
